---- MODULE Spec2Model ----
(***************************************************************************)
(* Model of host/libraries/libbladeRF_test/test_interleaver/src/main.c:    *)
(* the interleaver test harness (create_buf, check_buf, print_buf, test,   *)
(* main).  The buffer is a function from 16-bit word index to word value;   *)
(* a 32-bit sample is read little-endian from two consecutive words, as    *)
(* the uint16_t store in create_buf and the uint32_t load in check_buf do   *)
(* on the hosts libbladeRF supports.                                        *)
(***************************************************************************)
EXTENDS Integers, Sequences, FiniteSets, TLC

(***************************************************************************)
(* Bounds of the exploration (not program constants).                      *)
(***************************************************************************)
\* largest num_samples handed to test() by a caller other than main
MaxSamples == 8
\* buffers of at most this many words are corrupted at every word by the
\* modelled transform; longer ones at their edges only
MaxProbeWords == 18
\* main passes NUM_SAMPLES = 16384 samples to every test case.  Buffers of
\* that size cannot be enumerated, so the run of main is explored with
\* 2 * MainPairs samples instead: like 16384 an even count, with more than
\* 64 * 2 bytes, no wrap of the 16-bit count, and more bytes than metadata.
MainPairs == 17
\* check_buf on its own: buffers of at most this many samples ...
MaxCheckSamples == 4
\* ... scanned with strides 1 .. MaxStride
MaxStride == 3
\* samples of a generated buffer long enough for the 16-bit word index to
\* wrap (more than 65536 words), examined as a whole and not step by step
LongSamples == 32770

(***************************************************************************)
(* Program constants.                                                      *)
(***************************************************************************)
CELL_WIDTH == 4
NUM_COLUMNS == 8
NUM_SAMPLES == 16384
\* the sample count main is explored with (see MainPairs)
MainSamples == 2 * MainPairs
\* the modulus of the counting pattern, and 2^16 of "count << 16"
WORD_MOD == 65536
\* sizeof(uint32_t): the unit of the pointer arithmetic in check_buf
U32_BYTES == 4
\* bytes > 64 * 2 selects the abbreviated forced dump
DUMP_LIMIT == 128
DUMP_PART == 48
DUMP_COLUMNS == 2
\* the value every failing step of test() itself stores in status
FAIL == -1

RxLayouts == {"BLADERF_RX_X1", "BLADERF_RX_X2", "RX_INVALID"}
TxLayouts == {"BLADERF_TX_X1", "BLADERF_TX_X2", "TX_INVALID"}
Formats == {"BLADERF_FORMAT_SC16_Q11", "BLADERF_FORMAT_SC16_Q11_META"}

(***************************************************************************)
(* The size queries of helpers/interleave.h (external to main.c).          *)
(***************************************************************************)
_interleave_calc_bytes_per_sample(format) == 4

_interleave_calc_metadata_bytes(format) ==
    IF format = "BLADERF_FORMAT_SC16_Q11_META" THEN 16 ELSE 0

_interleave_calc_num_channels(layout) ==
    CASE layout \in {"BLADERF_RX_X1", "BLADERF_TX_X1"} -> 1
      [] layout \in {"BLADERF_RX_X2", "BLADERF_TX_X2"} -> 2
      [] OTHER -> 0

(***************************************************************************)
(* create_buf: word i of the buffer is i % 65536, for i < buflen / 2.      *)
(* An allocation is [len |-> its size in bytes, w |-> its 16-bit words].    *)
(***************************************************************************)
\* (variant: the word is reduced modulo 65535)
create_buf_WrongModulus(buflen) ==
    [len |-> buflen, w |-> [i \in 0 .. (buflen \div 2) - 1 |-> i % (WORD_MOD - 1)]]

create_buf(buflen) ==
    [len |-> buflen, w |-> [i \in 0 .. (buflen \div 2) - 1 |-> i % WORD_MOD]]

(***************************************************************************)
(* check_buf.  mem is the allocation the pointer buf points into and base  *)
(* the byte offset of buf in it (always a multiple of 4 in test()).  The   *)
(* loop index i counts uint32_t units from buf, whatever samplesize is.    *)
(* test() never passes a null buf, so the test of line 56 is not taken.    *)
(***************************************************************************)
\* (variant: the loop stops one sample early)
Examined_SkipLast(buflen, samplesize, stride) ==
    {i \in 0 .. (buflen \div samplesize) - 2 : i % stride = 0}

\* the values i takes: for (i = 0; i < buflen / samplesize; i += stride)
Examined(buflen, samplesize, stride) ==
    {i \in 0 .. (buflen \div samplesize) - 1 : i % stride = 0}

\* the bytes [base + 4i, base + 4i + 4) of *ptr lie inside the allocation
InBounds(mem, base, i) == base + U32_BYTES * i + U32_BYTES <= mem.len

\* A uint32_t is written <<low half, high half>>: its value is
\* low + 65536 * high, which exceeds the 32-bit integers of TLC.
\* *ptr, a little-endian uint32_t made of two consecutive 16-bit words
Read32(mem, base, i) ==
    LET w == (base + U32_BYTES * i) \div 2
    IN  <<mem.w[w], mem.w[w + 1]>>

\* (variant: count is incremented once per pass, both halves alike)
ExpectOf_OneIncrement(count) == <<count % WORD_MOD, count % WORD_MOD>>

\* one pass of lines 64-67 on a uint16_t count: the value of expect
ExpectOf(count) ==
    LET lo == count % WORD_MOD
        hi == ((lo + 1) % WORD_MOD) % WORD_MOD
    IN  <<lo, hi>>

\* ... and the value of count it leaves (two post-increments of a uint16_t)
CountAfter(count) == ((((count % WORD_MOD) + 1) % WORD_MOD) + 1) % WORD_MOD

\* count at the start of the k-th pass: CountAfter applied k times
CountAt(count, k) == (count + 2 * k) % WORD_MOD

\* the examined samples for which line 69 finds expect != *ptr
Mismatches(mem, base, buflen, samplesize, stride, count) ==
    {i \in Examined(buflen, samplesize, stride) :
        /\ InBounds(mem, base, i)
        /\ Read32(mem, base, i) # ExpectOf(CountAt(count, i \div stride))}

\* the examined samples whose load leaves the allocation
Overreads(mem, base, buflen, samplesize, stride) ==
    {i \in Examined(buflen, samplesize, stride) : ~InBounds(mem, base, i)}

\* What a call can do.  With every load inside the allocation the result is
\* retval: "pass" iff no mismatch.  A load outside it is undefined: it may
\* fault, or yield any value, which matches or not.
check_buf(mem, base, buflen, samplesize, stride, count) ==
    LET bad == Mismatches(mem, base, buflen, samplesize, stride, count) # {}
    IN  IF Overreads(mem, base, buflen, samplesize, stride) = {}
        THEN {IF bad THEN "fail" ELSE "pass"}
        ELSE {"fail", "crash"} \cup (IF bad THEN {} ELSE {"pass"})

(***************************************************************************)
(* print_buf: prints only; what matters is whether it returns.  With       *)
(* buflen < CELL_WIDTH columns is 0 and line 91 divides by it.             *)
(***************************************************************************)
print_buf(vb, buflen, num_columns) ==
    LET columns == IF num_columns < buflen \div CELL_WIDTH
                   THEN num_columns ELSE buflen \div CELL_WIDTH
    IN  IF ~vb THEN {"ok"}
        ELSE IF columns = 0 THEN {"ok", "crash"}
        ELSE {"ok"}

(***************************************************************************)
(* The transform behind _interleave_interleave_buf and                     *)
(* _interleave_deinterleave_buf is external.  A call returns any status    *)
(* and leaves the buffer as one of: unchanged, the reference interleaving  *)
(* of its data region, the reference deinterleaving, or one of those with  *)
(* one 16-bit word changed.                                                *)
(***************************************************************************)
TransformStatus == {-1, 0, 1}

\* data-region sample p of the result is sample k of channel c, p = k*nch + c,
\* channel c owning the c-th contiguous share of the data region
RefInterleave(mem, nch, off) ==
    LET dw    == off \div 2
        n     == (mem.len - off) \div U32_BYTES
        share == n \div nch
    IN  [mem EXCEPT !.w = [w \in DOMAIN mem.w |->
            IF w < dw \/ (w - dw) \div 2 >= share * nch THEN mem.w[w]
            ELSE LET p == (w - dw) \div 2
                     src == (p % nch) * share + (p \div nch)
                 IN  mem.w[dw + 2 * src + ((w - dw) % 2)]]]

RefDeinterleave(mem, nch, off) ==
    LET dw    == off \div 2
        n     == (mem.len - off) \div U32_BYTES
        share == n \div nch
    IN  [mem EXCEPT !.w = [w \in DOMAIN mem.w |->
            IF w < dw \/ (w - dw) \div 2 >= share * nch THEN mem.w[w]
            ELSE LET p == (w - dw) \div 2
                     src == (p % share) * nch + (p \div share)
                 IN  mem.w[dw + 2 * src + ((w - dw) % 2)]]]

SetWord(mem, j, v) == [mem EXCEPT !.w[j] = v]

ProbeWords(mem, off) ==
    LET nw == mem.len \div 2
    IN  IF nw <= MaxProbeWords THEN 0 .. nw - 1
        ELSE {0, off \div 2, (off \div 2) + 2, nw - 1} \cap (0 .. nw - 1)

TransformOutcomes(mem, nch, off) ==
    LET bases == {mem, RefInterleave(mem, nch, off), RefDeinterleave(mem, nch, off)}
    IN  bases \cup UNION {{SetWord(b, j, (b.w[j] + 1) % WORD_MOD) : j \in ProbeWords(b, off)}
                          : b \in bases}

(***************************************************************************)
(* State.                                                                  *)
(***************************************************************************)
VARIABLES
    caller,       \* "main": the program; "direct": test() called on its own
    mpc,          \* main: "call", "error", "done" ("none" when caller # "main")
    ncase,        \* main: index (1..4) of the test case being or to be run
    mstatus,      \* main: its local status
    results,      \* the statuses test() has returned to main so far
    exitval,      \* what main returned, once mpc = "done"
    rxlay, txlay, format, num_samples,   \* test(): its arguments
    tpc,          \* test(): position; "idle", "returned" and "crashed" included
    status,       \* test(): its local status
    i,            \* test(): the channel loop index of lines 208-241
    ret,          \* test(): the value returned
    mem,          \* the contents of the allocation buf points to
    heap,         \* "none" (no buffer yet), "live", "freed"
    allocs, frees,\* calls of malloc in create_buf that succeeded; calls of free
    misuse,       \* the buffer was accessed while not live
    trace,        \* steps of the current test() call, with their outcome
    checks,       \* arguments of the check_buf calls of the current test() call
    dumps,        \* the forced memory dumps of lines 217-228, over the run
    verbose, quiet

\* a call of check_buf followed statement by statement
VARIABLES
    cb_pc,        \* "off" (no such call), "entry", "loop", "returned"
    cb_null,      \* buf is NULL
    cb_buf,       \* the buflen bytes buf points to
    cb_buflen, cb_samplesize, cb_stride,   \* its arguments
    cb_start,     \* the argument count as passed
    cb_count,     \* the local count
    cb_i,         \* the loop index
    cb_retval,    \* the local retval, returned at the end
    cb_seen,      \* the values of i the loop body ran with, in order
    cb_reports    \* the PRINT_ERROR reports of line 70, in order

cbVars == <<cb_pc, cb_null, cb_buf, cb_buflen, cb_samplesize, cb_stride,
            cb_start, cb_count, cb_i, cb_retval, cb_seen, cb_reports>>

vars == <<caller, mpc, ncase, mstatus, results, exitval, rxlay, txlay, format,
          num_samples, tpc, status, i, ret, mem, heap, allocs, frees, misuse,
          trace, checks, dumps, verbose, quiet, cbVars>>

mainVars == <<caller, mpc, ncase, mstatus, results, exitval>>
argVars  == <<rxlay, txlay, format, num_samples>>
flagVars == <<verbose, quiet>>
runVars  == <<tpc, status, i, ret, mem, heap, allocs, frees, misuse, trace,
              checks, dumps>>

\* lines 137-140 of test()
samplesize == _interleave_calc_bytes_per_sample(format)
offset     == _interleave_calc_metadata_bytes(format)
num_chan   == _interleave_calc_num_channels(rxlay)
bytes      == samplesize * num_samples

\* the test cases of main, lines 274-295
Battery ==
    << [rx |-> "BLADERF_RX_X1", tx |-> "BLADERF_TX_X1", fmt |-> "BLADERF_FORMAT_SC16_Q11"],
       [rx |-> "BLADERF_RX_X1", tx |-> "BLADERF_TX_X1", fmt |-> "BLADERF_FORMAT_SC16_Q11_META"],
       [rx |-> "BLADERF_RX_X2", tx |-> "BLADERF_TX_X2", fmt |-> "BLADERF_FORMAT_SC16_Q11"],
       [rx |-> "BLADERF_RX_X2", tx |-> "BLADERF_TX_X2", fmt |-> "BLADERF_FORMAT_SC16_Q11_META"] >>

NoMem == [len |-> 0, w |-> << >>]

\* a step of test(): its outcome ("pass", "fail", or "crash" when the process
\* dies in it), the channel of a per-channel check (else -1) and the status
\* the transform returned (0 for the other steps)
Ev(step, res, chan, st) == [step |-> step, res |-> res, chan |-> chan, st |-> st]

Ck(step, chan, base, buflen, stride, count, vb) ==
    [step |-> step, chan |-> chan, base |-> base, buflen |-> buflen,
     ssize |-> samplesize, stride |-> stride, count |-> count, vb |-> vb]

\* the local frame of a fresh call of test(); status is indeterminate until
\* line 174 assigns it and is not read before
EnterTest ==
    /\ tpc' = "validate"
    /\ status' = 0
    /\ i' = 0
    /\ ret' = 0
    /\ mem' = NoMem
    /\ heap' = "none"
    /\ trace' = << >>
    /\ checks' = << >>

\* no call of check_buf is being followed
CheckBufOff ==
    /\ cb_pc = "off"
    /\ cb_null = FALSE
    /\ cb_buf = NoMem
    /\ cb_buflen = 0
    /\ cb_samplesize = 0
    /\ cb_stride = 0
    /\ cb_start = 0
    /\ cb_count = 0
    /\ cb_i = 0
    /\ cb_retval = TRUE
    /\ cb_seen = << >>
    /\ cb_reports = << >>

Init ==
    /\ CheckBufOff
    /\ caller \in {"main", "direct"}
    /\ mstatus = 0
    /\ results = << >>
    /\ exitval = 0
    /\ ncase = 1
    /\ status = 0
    /\ i = 0
    /\ ret = 0
    /\ mem = NoMem
    /\ heap = "none"
    /\ allocs = 0
    /\ frees = 0
    /\ misuse = FALSE
    /\ trace = << >>
    /\ checks = << >>
    /\ dumps = << >>
    /\ IF caller = "main"
       THEN /\ verbose = FALSE
            /\ quiet = FALSE
            /\ mpc = "call"
            /\ tpc = "idle"
            /\ rxlay = Battery[1].rx
            /\ txlay = Battery[1].tx
            /\ format = Battery[1].fmt
            /\ num_samples = MainSamples
       ELSE /\ verbose \in BOOLEAN
            /\ quiet \in BOOLEAN
            /\ mpc = "none"
            /\ tpc = "validate"
            /\ rxlay \in RxLayouts
            /\ txlay \in TxLayouts
            /\ format \in Formats
            /\ num_samples \in 0 .. MaxSamples

(***************************************************************************)
(* test(), lines 129-264, one action per step.                             *)
(***************************************************************************)
\* (variant: the single-channel check is never made)
PcAfterMetadata_Skip(nch) == "perchannel"

\* where control goes after the forward transform and after the metadata
\* check: the conditions of lines 182 and 196
PcAfterMetadata(nch) == IF nch = 1 THEN "nointerleave" ELSE "perchannel"

\* (variant: the metadata check of lines 182-194 is never made)
PcAfterForward_NoMetadataCheck(off, nch) == PcAfterMetadata(nch)

PcAfterForward(off, nch) == IF off > 0 THEN "metadata" ELSE PcAfterMetadata(nch)

\* (variant: the loop stops one channel early)
PcAfterChannel_OneShort(ch, nch) ==
    IF ch + 1 < nch - 1 THEN "perchannel" ELSE "deinterleave"

\* the loop condition of line 208 after ++i
PcAfterChannel(ch, nch) == IF ch + 1 < nch THEN "perchannel" ELSE "deinterleave"

\* (variant: only a negative status counts as a failure)
TransformFailed_NegativeOnly(st) == st < 0

\* a transform status that makes test() give up: lines 175 and 244
TransformFailed(st) == st # 0

\* (variant: the metadata offset is left out of the start value)
StartVal_NoOffset(off, ch, buflen, nch) ==
    ((ch * (buflen \div nch)) \div 2) % WORD_MOD

\* line 215, stored in a uint16_t
StartVal(off, ch, buflen, nch) ==
    (((off + ch * (buflen \div nch)) \div 2) % WORD_MOD) % WORD_MOD

\* line 210: the byte offset of bufptr in the buffer
ChannelBase(off, ssize, ch) == off + (ssize * ch)

\* (variant: the dump is forced for every channel)
DumpForced_AnyChannel(vb, qt, ch) == ~vb /\ ~qt

\* line 217
DumpForced(vb, qt, ch) == ~vb /\ ~qt /\ 0 = ch

\* (variant: line 227 is missing)
VerboseAfterDump_LeftOn(forced, vb) == IF forced THEN TRUE ELSE vb

\* verbose after lines 217-228: line 227 resets it when the dump was forced,
\* that is, when it was false
VerboseAfterDump(forced, vb) == IF forced THEN FALSE ELSE vb

\* two calls in a row: the second happens if the first returns
Then(a, b) == (a \cap {"crash"}) \cup (IF "ok" \in a THEN b ELSE {})

\* lines 218-227 with verbose just set: what the dump can do
ForcedDump(nbytes) ==
    IF nbytes > DUMP_LIMIT
    THEN Then(print_buf(TRUE, DUMP_PART, DUMP_COLUMNS),
              print_buf(TRUE, DUMP_PART, DUMP_COLUMNS))
    ELSE print_buf(TRUE, nbytes, DUMP_COLUMNS)

\* (variant: the size test of line 147 is missing)
ValidateOk_NoSizeTest ==
    /\ ~(num_chan # _interleave_calc_num_channels(txlay))
    /\ ~(num_chan < 1)

\* lines 142-156
ValidateOk ==
    /\ ~(num_chan # _interleave_calc_num_channels(txlay))
    /\ ~(bytes < offset)
    /\ ~(num_chan < 1)

Validate ==
    /\ tpc = "validate"
    /\ IF ValidateOk
       THEN /\ tpc' = "generate"
            /\ ret' = ret
            /\ trace' = Append(trace, Ev("Validate", "pass", -1, 0))
       ELSE /\ tpc' = "returned"
            /\ ret' = FAIL
            /\ trace' = Append(trace, Ev("Validate", "fail", -1, 0))
    /\ UNCHANGED <<cbVars, mainVars, argVars, flagVars, status, i, mem, heap, allocs,
                   frees, misuse, checks, dumps>>

\* lines 164-172; malloc may fail (for buflen = 0 it may also return NULL)
Generate ==
    /\ tpc = "generate"
    /\ \E got \in BOOLEAN :
         IF ~got
         THEN /\ tpc' = "returned"
              /\ ret' = FAIL
              /\ trace' = Append(trace, Ev("Generate", "fail", -1, 0))
              /\ UNCHANGED <<mem, heap, allocs>>
         ELSE /\ mem' = create_buf(bytes)
              /\ heap' = "live"
              /\ allocs' = allocs + 1
              /\ ret' = ret
              /\ \E p \in print_buf(verbose, bytes, NUM_COLUMNS) :
                   /\ tpc' = IF p = "crash" THEN "crashed" ELSE "interleave"
                   /\ trace' = Append(trace, Ev("Generate",
                                  IF p = "crash" THEN "crash" ELSE "pass", -1, 0))
    /\ UNCHANGED <<cbVars, mainVars, argVars, flagVars, status, i, frees, misuse,
                   checks, dumps>>

\* a call of the transform for layout lay at step, going to okpc on status 0
Transform(step, lay, okpc) ==
    \E st \in TransformStatus :
      \E nb \in TransformOutcomes(mem, _interleave_calc_num_channels(lay), offset) :
        /\ status' = st
        /\ mem' = nb
        /\ misuse' = (misuse \/ heap # "live")
        /\ IF TransformFailed(st)
           THEN /\ tpc' = "error"
                /\ trace' = Append(trace, Ev(step, "fail", -1, st))
           ELSE \E p \in print_buf(verbose, bytes, NUM_COLUMNS) :
                  /\ tpc' = IF p = "crash" THEN "crashed" ELSE okpc
                  /\ trace' = Append(trace, Ev(step,
                                  IF p = "crash" THEN "crash" ELSE "pass", -1, st))

\* lines 174-180
ForwardTransform ==
    /\ tpc = "interleave"
    /\ Transform("ForwardTransform", txlay, PcAfterForward(offset, num_chan))
    /\ UNCHANGED <<cbVars, mainVars, argVars, flagVars, i, ret, heap, allocs, frees,
                   checks, dumps>>

\* a call of check_buf at step with outcome r, going to okpc when it is true
Checked(step, chan, base, buflen, stride, count, vb, r, okpc) ==
    /\ checks' = Append(checks, Ck(step, chan, base, buflen, stride, count, vb))
    /\ trace' = Append(trace, Ev(step, r, chan, 0))
    /\ misuse' = (misuse \/ heap # "live")
    /\ tpc' = IF r = "pass" THEN okpc ELSE IF r = "fail" THEN "error" ELSE "crashed"
    /\ status' = IF r = "fail" THEN FAIL ELSE status

\* lines 182-194
VerifyMetadataUntouched ==
    /\ tpc = "metadata"
    /\ \E p \in print_buf(verbose, offset, NUM_COLUMNS) :
         IF p = "crash"
         THEN /\ tpc' = "crashed"
              /\ trace' = Append(trace, Ev("VerifyMetadataUntouched", "crash", -1, 0))
              /\ UNCHANGED <<checks, misuse, status>>
         ELSE \E r \in check_buf(mem, 0, offset, samplesize, 1, 0) :
                Checked("VerifyMetadataUntouched", -1, 0, offset, 1, 0, verbose,
                        r, PcAfterMetadata(num_chan))
    /\ UNCHANGED <<cbVars, mainVars, argVars, flagVars, i, ret, mem, heap, allocs,
                   frees, dumps>>

\* lines 196-206
VerifyNoInterleave ==
    /\ tpc = "nointerleave"
    /\ \E r \in check_buf(mem, 0, bytes, samplesize, 1, 0) :
         Checked("VerifyNoInterleave", -1, 0, bytes, 1, 0, verbose, r, "perchannel")
    /\ UNCHANGED <<cbVars, mainVars, argVars, flagVars, i, ret, mem, heap, allocs,
                   frees, dumps>>

\* lines 208-241, one pass of the loop
VerifyPerChannel ==
    /\ tpc = "perchannel"
    /\ i < num_chan
    /\ LET base     == ChannelBase(offset, samplesize, i)
           buflen   == bytes - offset
           startval == StartVal(offset, i, buflen, num_chan)
           forced   == DumpForced(verbose, quiet, i)
       IN  /\ dumps' = IF forced THEN Append(dumps, [case |-> ncase, chan |-> i])
                       ELSE dumps
           /\ \E d \in (IF forced THEN ForcedDump(bytes) ELSE {"ok"}) :
                IF d = "crash"
                THEN /\ verbose' = TRUE
                     /\ tpc' = "crashed"
                     /\ trace' = Append(trace, Ev("VerifyPerChannel", "crash", i, 0))
                     /\ UNCHANGED <<checks, misuse, status, i>>
                ELSE /\ verbose' = VerboseAfterDump(forced, verbose)
                     /\ \E r \in check_buf(mem, base, buflen, samplesize, num_chan, startval) :
                          /\ Checked("VerifyPerChannel", i, base, buflen, num_chan,
                                     startval, verbose', r, PcAfterChannel(i, num_chan))
                          /\ i' = IF r = "pass" THEN i + 1 ELSE i
    /\ UNCHANGED <<cbVars, mainVars, argVars, quiet, ret, mem, heap, allocs, frees>>

\* lines 243-249
InverseTransform ==
    /\ tpc = "deinterleave"
    /\ Transform("InverseTransform", rxlay, "restored")
    /\ UNCHANGED <<cbVars, mainVars, argVars, flagVars, i, ret, heap, allocs, frees,
                   checks, dumps>>

\* lines 251-259; on success control falls through to the label error
VerifyRestored ==
    /\ tpc = "restored"
    /\ \E r \in check_buf(mem, 0, bytes, samplesize, 1, 0) :
         Checked("VerifyRestored", -1, 0, bytes, 1, 0, verbose, r, "error")
    /\ UNCHANGED <<cbVars, mainVars, argVars, flagVars, i, ret, mem, heap, allocs,
                   frees, dumps>>

\* (variant: the label error returns without freeing)
Release_NoFree ==
    /\ tpc = "error"
    /\ ret' = status
    /\ tpc' = "returned"
    /\ UNCHANGED <<cbVars, mainVars, argVars, flagVars, status, i, mem, heap, allocs,
                   frees, misuse, trace, checks, dumps>>

\* lines 261-263: free(buf); return status.  mem keeps the last contents
\* of the freed buffer; no step reads them.
Release ==
    /\ tpc = "error"
    /\ frees' = frees + 1
    /\ heap' = "freed"
    /\ misuse' = (misuse \/ heap # "live")
    /\ ret' = status
    /\ tpc' = "returned"
    /\ UNCHANGED <<cbVars, mainVars, argVars, flagVars, status, i, mem, allocs, trace,
                   checks, dumps>>

(***************************************************************************)
(* main(), lines 267-306.                                                  *)
(***************************************************************************)
\* the test of lines 276, 282, 290, 296
MainStops(st) == st < 0

MainCall ==
    /\ caller = "main"
    /\ mpc = "call"
    /\ tpc = "idle"
    /\ rxlay' = Battery[ncase].rx
    /\ txlay' = Battery[ncase].tx
    /\ format' = Battery[ncase].fmt
    /\ num_samples' = MainSamples
    /\ EnterTest
    /\ UNCHANGED <<cbVars, mainVars, flagVars, allocs, frees, misuse, dumps>>

MainReturn ==
    /\ caller = "main"
    /\ mpc = "call"
    /\ tpc = "returned"
    /\ tpc' = "idle"
    /\ mstatus' = ret
    /\ results' = Append(results, ret)
    /\ IF MainStops(ret) \/ ncase = Len(Battery)
       THEN mpc' = "error" /\ ncase' = ncase
       ELSE mpc' = "call" /\ ncase' = ncase + 1
    /\ UNCHANGED <<cbVars, caller, exitval, argVars, flagVars, status, i, ret, mem,
                   heap, allocs, frees, misuse, trace, checks, dumps>>

\* lines 300-305
MainExit ==
    /\ caller = "main"
    /\ mpc = "error"
    /\ exitval' = mstatus
    /\ mpc' = "done"
    /\ UNCHANGED <<cbVars, caller, ncase, mstatus, results, argVars, flagVars, tpc,
                   status, i, ret, mem, heap, allocs, frees, misuse, trace,
                   checks, dumps>>

Next ==
    \/ Validate
    \/ Generate
    \/ ForwardTransform
    \/ VerifyMetadataUntouched
    \/ VerifyNoInterleave
    \/ VerifyPerChannel
    \/ InverseTransform
    \/ VerifyRestored
    \/ Release
    \/ MainCall
    \/ MainReturn
    \/ MainExit

Spec == Init /\ [][Next]_vars

(***************************************************************************)
(* check_buf, lines 46-78, called on its own and followed statement by     *)
(* statement.  buf is NULL or points to exactly buflen bytes (the contract  *)
(* of the comment of lines 44-45), and samplesize is sizeof(uint32_t), as   *)
(* in every call test() makes; so every load of the loop is inside buf.     *)
(***************************************************************************)
\* examined sample k (i = k * stride) holds the count pair the scan expects;
\* the samples in between hold what create_buf wrote
PatternFor(buflen, stride, count) ==
    [len |-> buflen,
     w |-> [j \in 0 .. (buflen \div 2) - 1 |->
              LET s == j \div 2
              IN  IF s % stride = 0
                  THEN (count + 2 * (s \div stride) + (j % 2)) % WORD_MOD
                  ELSE j % WORD_MOD]]

\* the words of S each raised by d (mod 2^16)
Corrupt(b, S, d) ==
    [b EXCEPT !.w = [j \in DOMAIN b.w |->
                        IF j \in S THEN (b.w[j] + d) % WORD_MOD ELSE b.w[j]]]

\* what a single changed word is changed by
Deltas == {1, WORD_MOD \div 2, WORD_MOD - 1}

\* the start counts tried: small ones and the ones around the wrap
StartCounts == {0, 1, WORD_MOD - 3, WORD_MOD - 2, WORD_MOD - 1}

\* the buffers of buflen bytes tried: generated or matching the scan, with
\* any set of words raised by one or one word changed by any of Deltas
BuffersTried(buflen, stride, count) ==
    LET bases == {create_buf(buflen), PatternFor(buflen, stride, count)}
        words == 0 .. (buflen \div 2) - 1
    IN  {Corrupt(b, S, 1) : b \in bases, S \in SUBSET words}
        \cup {Corrupt(b, {j}, d) : b \in bases, j \in words, d \in Deltas}

\* the harness is not running
HarnessOff ==
    /\ caller = "check_buf"
    /\ mpc = "none"
    /\ tpc = "idle"
    /\ ncase = 1
    /\ mstatus = 0
    /\ results = << >>
    /\ exitval = 0
    /\ rxlay = Battery[1].rx
    /\ txlay = Battery[1].tx
    /\ format = Battery[1].fmt
    /\ num_samples = 0
    /\ status = 0
    /\ i = 0
    /\ ret = 0
    /\ mem = NoMem
    /\ heap = "none"
    /\ allocs = 0
    /\ frees = 0
    /\ misuse = FALSE
    /\ trace = << >>
    /\ checks = << >>
    /\ dumps = << >>
    /\ verbose = FALSE
    /\ quiet = FALSE

InitVerifier ==
    /\ HarnessOff
    /\ cb_pc = "entry"
    /\ cb_null \in BOOLEAN
    /\ cb_samplesize \in {_interleave_calc_bytes_per_sample(f) : f \in Formats}
    /\ cb_buflen \in {cb_samplesize * n : n \in 0 .. MaxCheckSamples}
    /\ cb_stride \in 1 .. MaxStride
    /\ cb_start \in StartCounts
    /\ cb_count = cb_start
    /\ IF cb_null
       THEN cb_buf = NoMem
       ELSE cb_buf \in BuffersTried(cb_buflen, cb_stride, cb_start)
    /\ cb_i = 0
    /\ cb_retval = TRUE
    /\ cb_seen = << >>
    /\ cb_reports = << >>

\* (variant: the scan stops at the first mismatch)
LoopCond_StopAtMismatch(idx, buflen, ssize, retval) ==
    idx < buflen \div ssize /\ retval

\* line 61: i < buflen / samplesize, whatever retval is
LoopCond(idx, buflen, ssize, retval) == idx < buflen \div ssize

\* lines 52-61: retval = true, the NULL test, i = 0
CheckBufEntry ==
    /\ cb_pc = "entry"
    /\ IF cb_null
       THEN cb_retval' = FALSE /\ cb_pc' = "returned"
       ELSE cb_retval' = TRUE /\ cb_pc' = "loop"
    /\ cb_i' = 0
    /\ UNCHANGED <<cb_null, cb_buf, cb_buflen, cb_samplesize, cb_stride,
                   cb_start, cb_count, cb_seen, cb_reports>>
    /\ UNCHANGED <<mainVars, argVars, flagVars, runVars>>

\* lines 61-75: one pass of the loop body, then i += stride
CheckBufPass ==
    /\ cb_pc = "loop"
    /\ LoopCond(cb_i, cb_buflen, cb_samplesize, cb_retval)
    /\ InBounds(cb_buf, 0, cb_i)
    /\ LET expect == ExpectOf(cb_count)
           actual == Read32(cb_buf, 0, cb_i)
       IN  /\ cb_count' = CountAfter(cb_count)
           /\ IF expect # actual
              THEN /\ cb_reports' = Append(cb_reports,
                         [i |-> cb_i, actual |-> actual, expect |-> expect])
                   /\ cb_retval' = FALSE
              ELSE UNCHANGED <<cb_reports, cb_retval>>
    /\ cb_seen' = Append(cb_seen, cb_i)
    /\ cb_i' = cb_i + cb_stride
    /\ UNCHANGED <<cb_pc, cb_null, cb_buf, cb_buflen, cb_samplesize, cb_stride,
                   cb_start>>
    /\ UNCHANGED <<mainVars, argVars, flagVars, runVars>>

\* line 77, once the loop condition is false
CheckBufReturn ==
    /\ cb_pc = "loop"
    /\ ~LoopCond(cb_i, cb_buflen, cb_samplesize, cb_retval)
    /\ cb_pc' = "returned"
    /\ UNCHANGED <<cb_null, cb_buf, cb_buflen, cb_samplesize, cb_stride,
                   cb_start, cb_count, cb_i, cb_retval, cb_seen, cb_reports>>
    /\ UNCHANGED <<mainVars, argVars, flagVars, runVars>>

NextVerifier ==
    \/ CheckBufEntry
    \/ CheckBufPass
    \/ CheckBufReturn

SpecVerifier == InitVerifier /\ [][NextVerifier]_vars

(***************************************************************************)
(* Properties.                                                             *)
(***************************************************************************)
Last(q) == q[Len(q)]

\* test() is not running: it has returned (and, under main, been collected)
Returned == tpc \in {"returned", "idle"} /\ trace # << >>

TransformSteps == {"ForwardTransform", "InverseTransform"}

\* C1: main stops at the first test case that fails: once test() has returned
\* a non-zero status (whatever the transform's status was: negative or
\* positive), test() is not called again in that run.
C1_NoCallAfterFailedCase ==
    \A k \in 1 .. Len(results) :
        results[k] # 0 => (k = Len(results) /\ tpc = "idle")

\* the status of the first failing case, 0 if there is none
FirstFailure(rs) ==
    IF \A k \in 1 .. Len(rs) : rs[k] = 0 THEN 0
    ELSE rs[CHOOSE k \in 1 .. Len(rs) :
                rs[k] # 0 /\ \A j \in 1 .. k - 1 : rs[j] = 0]

\* C2: main returns the status of the first failing test case, and returns 0
\* only if all four test cases returned 0.
C2_ExitStatusIsFirstFailure ==
    mpc = "done" =>
        /\ exitval = FirstFailure(results)
        /\ exitval = 0 =>
              (Len(results) = 4 /\ \A k \in 1 .. 4 : results[k] = 0)

\* the steps of a complete test case, each with its channel (-1: none)
StepOrder(metaBytes, nch) ==
    << <<"Validate", -1>>, <<"Generate", -1>>, <<"ForwardTransform", -1>> >>
    \o (IF metaBytes > 0 THEN << <<"VerifyMetadataUntouched", -1>> >> ELSE << >>)
    \o (IF nch = 1 THEN << <<"VerifyNoInterleave", -1>> >> ELSE << >>)
    \o [c \in 1 .. nch |-> <<"VerifyPerChannel", c - 1>>]
    \o << <<"InverseTransform", -1>>, <<"VerifyRestored", -1>> >>

\* C3: the steps of a test case occur only in the order Validate, Generate,
\* ForwardTransform, VerifyMetadataUntouched (iff metadata bytes > 0),
\* VerifyNoInterleave (iff one channel), VerifyPerChannel for channels
\* 0..N-1 ascending, InverseTransform, VerifyRestored; a step that does not
\* succeed is the last one of the case, every transform before the last step
\* returned 0, test() returns non-zero after a failed step, and returns 0
\* only after the whole sequence.
C3_StepOrder ==
    LET full == StepOrder(offset, num_chan)
    IN  /\ Len(trace) <= Len(full)
        /\ \A k \in 1 .. Len(trace) :
              /\ trace[k].step = full[k][1]
              /\ trace[k].chan = full[k][2]
        /\ \A k \in 1 .. Len(trace) - 1 :
              trace[k].res = "pass" /\ trace[k].st = 0
        /\ (trace # << >> /\ Last(trace).res = "fail") =>
              /\ tpc \in {"error", "returned", "idle"}
              /\ Returned => ret # 0
        /\ (Returned /\ ret = 0) =>
              (Len(trace) = Len(full) /\ Last(trace).res = "pass")

\* C3 witness: a two-channel case with metadata has failed at the check of
\* channel 1 and test() has returned non-zero
C3_Witness ==
    /\ tpc = "returned"
    /\ ret # 0
    /\ offset > 0
    /\ num_chan = 2
    /\ Len(trace) = 6
    /\ Last(trace).step = "VerifyPerChannel"
    /\ Last(trace).chan = 1
    /\ Last(trace).res = "fail"

\* C4: a buffer create_buf returned is freed exactly once before test()
\* returns, on every path; it is not accessed when not live, and nothing
\* runs after the free but the return; when test() returns at Validate or at
\* a failed Generate, free has not been called.
C4_BufferFreedOnce ==
    /\ ~misuse
    /\ frees <= allocs
    /\ allocs - frees = (IF heap = "live" THEN 1 ELSE 0)
    /\ heap = "freed" => tpc \in {"returned", "idle"}
    /\ Returned =>
          /\ heap \in {"none", "freed"}
          /\ heap = "freed" <=>
                \E k \in 1 .. Len(trace) :
                    trace[k].step = "Generate" /\ trace[k].res = "pass"
          /\ Last(trace).step \in {"Validate", "Generate"} => heap = "none"

\* C4 witness: test() has returned from a failed metadata check with its
\* buffer freed
C4_Witness ==
    /\ tpc = "returned"
    /\ heap = "freed"
    /\ frees = allocs
    /\ allocs = 1
    /\ Last(trace).step = "VerifyMetadataUntouched"
    /\ Last(trace).res = "fail"

\* the case Validate must reject, in the claim's terms
InvalidCase ==
    \/ _interleave_calc_num_channels(rxlay) # _interleave_calc_num_channels(txlay)
    \/ _interleave_calc_bytes_per_sample(format) * num_samples
          < _interleave_calc_metadata_bytes(format)
    \/ _interleave_calc_num_channels(rxlay) < 1

\* C5: with differing channel counts, fewer bytes than metadata bytes, or
\* fewer than one channel, test() returns a negative status and has called
\* neither create_buf nor the transform nor check_buf.
C5_ValidationBeforeBuffer ==
    (InvalidCase /\ tpc # "validate") =>
        /\ tpc = "returned"
        /\ ret < 0
        /\ trace = << Ev("Validate", "fail", -1, 0) >>
        /\ checks = << >>
        /\ heap = "none"
        /\ allocs = 0
        /\ frees = 0
        /\ mem = NoMem

\* C5 witness: a case with matching layouts whose bytes are fewer than its
\* metadata bytes has been rejected
C5_Witness ==
    /\ tpc = "returned"
    /\ num_chan = 2
    /\ _interleave_calc_num_channels(txlay) = 2
    /\ num_samples > 0
    /\ bytes < offset
    /\ ret < 0

\* C6: a transform that returns a non-zero status ends the case: it is the
\* last step, no check follows (none at all after a failed interleave), and
\* test() returns that status; a transform step is passed only with status 0.
C6_TransformFailureAborts ==
    \A k \in 1 .. Len(trace) :
        trace[k].step \in TransformSteps =>
            /\ trace[k].res = "fail" <=> trace[k].st # 0
            /\ k < Len(trace) => trace[k].st = 0
            /\ trace[k].st # 0 =>
                  /\ k = Len(trace)
                  /\ tpc \in {"error", "returned", "idle"}
                  /\ status = trace[k].st
                  /\ Returned => ret = trace[k].st
                  /\ trace[k].step = "ForwardTransform" => checks = << >>
                  /\ trace[k].step = "InverseTransform" =>
                        \A c \in 1 .. Len(checks) : checks[c].step # "VerifyRestored"

\* C6 witness: deinterleave returned 1 and test() returned 1
C6_Witness ==
    /\ tpc = "returned"
    /\ Last(trace).step = "InverseTransform"
    /\ Last(trace).st = 1
    /\ ret = 1

\* the counting pattern: 16-bit word j holds j mod 65536
CountingPattern(nbytes) ==
    [len |-> nbytes, w |-> [j \in 0 .. (nbytes \div 2) - 1 |-> j % 65536]]

Ran(stepname) == \E k \in 1 .. Len(trace) : trace[k].step = stepname

\* C7: test() returns 0 only after VerifyRestored passed, and VerifyRestored
\* passes exactly when the buffer left by deinterleave equals the counting
\* pattern create_buf produced; any difference makes it fail and test()
\* return non-zero.
C7_RoundTripEnforced ==
    LET pat == CountingPattern(_interleave_calc_bytes_per_sample(format) * num_samples)
    IN  /\ (Returned /\ ret = 0) =>
              /\ Last(trace).step = "VerifyRestored"
              /\ Last(trace).res = "pass"
              /\ mem = pat
        /\ (trace # << >> /\ Last(trace).step = "VerifyRestored") =>
              /\ Last(trace).res \in {"pass", "fail"}
              /\ Last(trace).res = "pass" <=> mem = pat
              /\ (Returned /\ Last(trace).res = "fail") => ret # 0

\* C7 witness: a two-channel case of at least four samples has returned 0
C7_Witness ==
    /\ tpc = "returned"
    /\ ret = 0
    /\ num_chan = 2
    /\ num_samples >= 4
    /\ Last(trace).step = "VerifyRestored"

\* the data region (the words from metaBytes / 2 on) of a and b agree
SameData(a, b, metaBytes) ==
    /\ a.len = b.len
    /\ \A j \in (metaBytes \div 2) .. (a.len \div 2) - 1 : a.w[j] = b.w[j]

\* C8: in a two-channel test case VerifyPerChannel passes for all channels
\* exactly when the data region of the buffer equals the reference
\* interleaving of the generated data region.
C8_ScatterLaw ==
    LET ref == RefInterleave(CountingPattern(bytes), 2, offset)
    IN  num_chan = 2 =>
          /\ tpc = "deinterleave" => SameData(mem, ref, offset)
          /\ (trace # << >> /\ Last(trace).step = "VerifyPerChannel"
                /\ Last(trace).res = "fail") => ~SameData(mem, ref, offset)

\* C9: the strided scan of channel c of N starts at byte offset
\* metaBytes + c * samplesize, has stride N and starts at count
\* ((metaBytes + c * (dataBytes / N)) / 2) mod 65536; with 4 bytes per
\* sample, no metadata, two channels and 16384 samples channel 0 starts at
\* 0 and channel 1 at 16384, the count advancing by 2 per examined sample.
C9_StartValue ==
    /\ \A k \in 1 .. Len(checks) :
          checks[k].step = "VerifyPerChannel" =>
              LET c         == checks[k].chan
                  ssz       == _interleave_calc_bytes_per_sample(format)
                  metaBytes == _interleave_calc_metadata_bytes(format)
                  dataBytes == ssz * num_samples - metaBytes
                  N         == _interleave_calc_num_channels(rxlay)
              IN  /\ checks[k].count = ((metaBytes + c * (dataBytes \div N)) \div 2) % 65536
                  /\ checks[k].base = metaBytes + c * ssz
                  /\ checks[k].stride = N
                  /\ checks[k].buflen = dataBytes
    /\ 4 * NUM_SAMPLES = 65536
    /\ StartVal(0, 0, 65536, 2) = 0
    /\ StartVal(0, 1, 65536, 2) = 16384
    /\ ChannelBase(0, 4, 1) = 4
    /\ \A c0 \in {0, 16384} : \A k \in 0 .. 8 :
          /\ CountAt(c0, k) = c0 + 2 * k
          /\ CountAfter(CountAt(c0, k)) = CountAt(c0, k + 1)
          /\ ExpectOf(CountAt(c0, k)) = <<c0 + 2 * k, c0 + 2 * k + 1>>

\* C9 witness: channel 1 of a two-channel case with metadata and data has
\* been scanned
C9_Witness ==
    /\ offset > 0
    /\ bytes > offset
    /\ \E k \in 1 .. Len(checks) :
          /\ checks[k].step = "VerifyPerChannel"
          /\ checks[k].chan = 1
          /\ checks[k].count > 0

\* C10: VerifyNoInterleave is executed iff the case has one channel (and
\* control gets there); it passes exactly when the buffer interleave left
\* equals the generated one; a single-channel case reaches the per-channel
\* checks and deinterleave only with the buffer unchanged, and fails
\* otherwise.
C10_SingleChannelNoOp ==
    LET pat == CountingPattern(bytes)
    IN  /\ Ran("VerifyNoInterleave") => num_chan = 1
        /\ (num_chan = 1 /\ Ran("VerifyPerChannel")) => Ran("VerifyNoInterleave")
        /\ (trace # << >> /\ Last(trace).step = "VerifyNoInterleave") =>
              /\ Last(trace).res \in {"pass", "fail"}
              /\ Last(trace).res = "pass" <=> mem = pat
              /\ Last(trace).res = "fail" =>
                    /\ tpc \in {"error", "returned", "idle"}
                    /\ Returned => ret # 0
        /\ (num_chan = 1 /\ tpc \in {"perchannel", "deinterleave"}) => mem = pat
        /\ (num_chan = 1 /\ Ran("InverseTransform")) =>
              \E k \in 1 .. Len(trace) :
                  trace[k].step = "VerifyNoInterleave" /\ trace[k].res = "pass"

\* C10 witness: interleave changed a single-channel buffer and test() has
\* failed at VerifyNoInterleave
C10_Witness ==
    /\ tpc = "returned"
    /\ num_chan = 1
    /\ Last(trace).step = "VerifyNoInterleave"
    /\ Last(trace).res = "fail"
    /\ mem # CountingPattern(bytes)
    /\ ret # 0

\* the first metaBytes bytes of a and b agree
SameMetadata(a, b, metaBytes) ==
    \A j \in 0 .. (metaBytes \div 2) - 1 : a.w[j] = b.w[j]

\* C11: with metadata bytes > 0, when interleave returned 0 the metadata
\* check passes exactly when the first metaBytes bytes of the buffer are
\* those create_buf wrote; if any of them changed the check fails, it is the
\* last step (no per-channel check, no deinterleave) and test() returns
\* non-zero; control gets past it only with the metadata untouched.  With
\* metadata bytes = 0 the step is skipped and check_buf is not called for it.
C11_MetadataPreserved ==
    LET metaBytes == _interleave_calc_metadata_bytes(format)
        pat       == CountingPattern(bytes)
    IN  /\ metaBytes > 0 =>
              /\ (trace # << >> /\ Last(trace).step = "VerifyMetadataUntouched") =>
                    /\ Last(trace).res \in {"pass", "fail"}
                    /\ Last(trace).res = "pass" <=> SameMetadata(mem, pat, metaBytes)
                    /\ Last(trace).res = "fail" =>
                          /\ tpc \in {"error", "returned", "idle"}
                          /\ Returned => ret # 0
              /\ tpc \in {"nointerleave", "perchannel", "deinterleave"} =>
                    SameMetadata(mem, pat, metaBytes)
              /\ (Ran("VerifyNoInterleave") \/ Ran("VerifyPerChannel")
                    \/ Ran("InverseTransform")) =>
                    \E k \in 1 .. Len(trace) :
                        /\ trace[k].step = "VerifyMetadataUntouched"
                        /\ trace[k].res = "pass"
        /\ metaBytes = 0 =>
              /\ ~Ran("VerifyMetadataUntouched")
              /\ \A k \in 1 .. Len(checks) :
                    checks[k].step # "VerifyMetadataUntouched"

\* C11 witness: interleave returned 0 but changed a metadata word of a
\* two-channel case; the metadata check failed as the only check made and
\* test() has returned non-zero
C11_Witness ==
    /\ tpc = "returned"
    /\ offset > 0
    /\ num_chan = 2
    /\ Len(trace) = 4
    /\ trace[3].step = "ForwardTransform"
    /\ trace[3].st = 0
    /\ Last(trace).step = "VerifyMetadataUntouched"
    /\ Last(trace).res = "fail"
    /\ ~SameMetadata(mem, CountingPattern(bytes), offset)
    /\ Len(checks) = 1
    /\ ret # 0

\* C12: check_buf never stops at a mismatch.  For every buffer, stride >= 1
\* and start count it examines the indices 0, stride, 2*stride, ... below
\* buflen / samplesize, in order and whatever it found before; the expected
\* count advances by 2 (mod 65536) per examined sample, matched or not; it
\* reports one mismatch for each examined sample that differs from the
\* expected pair, and returns true iff it reported none.  The result is the
\* one the harness model takes from check_buf(...) for the same arguments.
C12_ScanNeverStops ==
    (cb_pc \in {"loop", "returned"} /\ ~cb_null) =>
        LET n         == cb_buflen \div cb_samplesize
            passes    == Len(cb_seen)
            Want(idx) == << (cb_start + 2 * (idx \div cb_stride)) % 65536,
                            (cb_start + 2 * (idx \div cb_stride) + 1) % 65536 >>
            Got(idx)  == << cb_buf.w[2 * idx], cb_buf.w[2 * idx + 1] >>
            Bad(idx)  == Got(idx) # Want(idx)
            badseen   == SelectSeq(cb_seen, Bad)
        IN  /\ \A k \in 1 .. passes : cb_seen[k] = (k - 1) * cb_stride
            /\ cb_i = passes * cb_stride
            /\ cb_i < n => 4 * cb_i + 4 <= cb_buf.len
            /\ cb_count = (cb_start + 2 * passes) % 65536
            /\ Len(cb_reports) = Len(badseen)
            /\ \A k \in 1 .. Len(badseen) :
                  cb_reports[k] = [i |-> badseen[k], actual |-> Got(badseen[k]),
                                   expect |-> Want(badseen[k])]
            /\ cb_retval <=> (cb_reports = << >>)
            /\ cb_pc = "returned" =>
                  /\ {cb_seen[k] : k \in 1 .. passes}
                        = {idx \in 0 .. n - 1 : idx % cb_stride = 0}
                  /\ check_buf(cb_buf, 0, cb_buflen, cb_samplesize, cb_stride, cb_start)
                        = {IF cb_retval THEN "pass" ELSE "fail"}
                  /\ {cb_reports[k].i : k \in 1 .. Len(cb_reports)}
                        = Mismatches(cb_buf, 0, cb_buflen, cb_samplesize,
                                     cb_stride, cb_start)

\* C12 witness: a stride-2 scan starting at count 65535 found sample 0 wrong,
\* went on to sample 2, which matched, and returned false
C12_Witness ==
    /\ cb_pc = "returned"
    /\ cb_stride = 2
    /\ cb_start = 65535
    /\ cb_seen = <<0, 2>>
    /\ Len(cb_reports) = 1
    /\ cb_reports[1].i = 0
    /\ cb_reports[1].expect = <<65535, 0>>
    /\ ~cb_retval

\* the words of b that differ from what create_buf wrote
ChangedWords(b) == {j \in DOMAIN b.w : b.w[j] # create_buf(b.len).w[j]}

\* C13: for a buffer create_buf produced with a single 16-bit word w changed
\* to a different value, check_buf with stride 1 and start count 0 over the
\* whole buffer reports exactly one mismatch: at sample w div 2, with the
\* pattern value of that sample as expected and the corrupted sample as
\* actual value; and it returns false.
C13_SingleCorruptionFound ==
    (/\ cb_pc = "returned"
     /\ ~cb_null
     /\ cb_stride = 1
     /\ cb_start = 0
     /\ cb_buf.len = cb_buflen
     /\ Cardinality(ChangedWords(cb_buf)) = 1) =>
        LET w   == CHOOSE j \in ChangedWords(cb_buf) : TRUE
            s   == w \div 2
            pat == create_buf(cb_buflen)
        IN  /\ cb_reports = << [i      |-> s,
                                actual |-> <<cb_buf.w[2 * s], cb_buf.w[2 * s + 1]>>,
                                expect |-> <<pat.w[2 * s], pat.w[2 * s + 1]>>] >>
            /\ cb_reports[1].actual # cb_reports[1].expect
            /\ cb_retval = FALSE

\* C13 witness: word 5 (the high half of sample 2) of a generated 16-byte
\* buffer was changed from 5 to 32773 and the scan has reported it
C13_Witness ==
    /\ cb_pc = "returned"
    /\ cb_stride = 1
    /\ cb_start = 0
    /\ cb_buflen = 16
    /\ ChangedWords(cb_buf) = {5}
    /\ cb_buf.w[5] = 32773
    /\ cb_reports = << [i |-> 2, actual |-> <<4, 32773>>, expect |-> <<4, 5>>] >>
    /\ ~cb_retval

\* a generated buffer of LongSamples samples
LongBuffer == create_buf(4 * LongSamples)

\* every word of it is its index mod 65536, the word after 65535 is 0 again,
\* and the stride-1, start-0 scan of the whole buffer finds no mismatch
LongBufferAgrees ==
    /\ 2 * LongSamples > 65536
    /\ LongBuffer.len = 4 * LongSamples
    /\ DOMAIN LongBuffer.w = 0 .. (2 * LongSamples) - 1
    /\ \A j \in 0 .. (2 * LongSamples) - 1 : LongBuffer.w[j] = j % 65536
    /\ LongBuffer.w[65535] = 65535
    /\ LongBuffer.w[65536] = 0
    /\ Mismatches(LongBuffer, 0, 4 * LongSamples, 4, 1, 0) = {}
    /\ check_buf(LongBuffer, 0, 4 * LongSamples, 4, 1, 0) = {"pass"}

\* LongBufferAgrees does not depend on the state; it is evaluated in one
\* initial state only, which keeps the scan of the long buffer to one
LongBufferChecked ==
    cb_pc = "entry" /\ cb_null /\ cb_buflen = 0 /\ cb_stride = 1 /\ cb_start = 0

\* C14: create_buf writes word i = i mod 65536 for every i < buflen / 2, and
\* check_buf with stride 1 and start count 0 returns true on the untouched
\* buffer, for every length that is a multiple of 4, lengths of more than
\* 65536 words included.  The expected sample is the pair (low, high) with
\* high = (low + 1) mod 65536, the next sample's low is (low + 2) mod 65536,
\* and the sample with low word 65535 has high word 0.
C14_GeneratorVerifierAgree ==
    /\ LET b == create_buf(cb_buflen)
       IN  /\ b.len = cb_buflen
           /\ DOMAIN b.w = 0 .. (cb_buflen \div 2) - 1
           /\ \A j \in 0 .. (cb_buflen \div 2) - 1 : b.w[j] = j % 65536
    /\ (/\ cb_pc = "returned"
        /\ ~cb_null
        /\ cb_stride = 1
        /\ cb_start = 0
        /\ cb_buf = create_buf(cb_buflen)) =>
           (cb_retval /\ cb_reports = << >>)
    /\ cb_pc = "loop" =>
           /\ ExpectOf(cb_count) = <<cb_count, (cb_count + 1) % 65536>>
           /\ CountAfter(cb_count) = (cb_count + 2) % 65536
    /\ ExpectOf(65535) = <<65535, 0>>
    /\ ExpectOf(65534) = <<65534, 65535>>
    /\ CountAfter(65534) = 0
    /\ CountAfter(65535) = 1
    /\ \A c \in StartCounts : \A k \in 0 .. MaxCheckSamples :
           CountAt(c, k + 1) = CountAfter(CountAt(c, k))
    /\ LongBufferChecked => LongBufferAgrees

\* C14 witness: an untouched generated buffer of at least 4 samples has been
\* scanned with stride 1 from count 0 and check_buf returned true
C14_Witness ==
    /\ cb_pc = "returned"
    /\ ~cb_null
    /\ cb_stride = 1
    /\ cb_start = 0
    /\ cb_buflen >= 16
    /\ cb_buf = create_buf(cb_buflen)
    /\ Len(cb_seen) = cb_buflen \div 4
    /\ cb_retval

\* C15: every 4-byte sample check_buf reads in a verification step of test()
\* lies inside the generated buffer: for each call made (the metadata check,
\* the single-channel check, the check of each channel i at base
\* metaBytes + i * samplesize with length bytes - metaBytes and stride N,
\* the final check), the byte range of each examined sample ends at or
\* before byte index bytes.
C15_ReadsInsideBuffer ==
    \A k \in 1 .. Len(checks) :
        LET c == checks[k]
            n == c.buflen \div c.ssize
        IN  /\ c.step = "VerifyPerChannel" =>
                  /\ c.base = _interleave_calc_metadata_bytes(format) + c.chan * c.ssize
                  /\ c.buflen = bytes - _interleave_calc_metadata_bytes(format)
                  /\ c.stride = _interleave_calc_num_channels(rxlay)
            /\ \A idx \in 0 .. n - 1 :
                  idx % c.stride = 0 => c.base + 4 * idx + 4 <= bytes

\* what the dump calls of the step test() is about to make can do, were the
\* flags vb and qt: print_buf of lines 172, 180, 184, 249 and the forced
\* dump of lines 217-228
DumpOutcomes(pc, vb, qt) ==
    CASE pc \in {"generate", "interleave", "deinterleave"} ->
             print_buf(vb, bytes, NUM_COLUMNS)
      [] pc = "metadata" -> print_buf(vb, offset, NUM_COLUMNS)
      [] pc = "perchannel" ->
             IF DumpForced(vb, qt, i) THEN ForcedDump(bytes) ELSE {"ok"}
      [] OTHER -> {"ok"}

\* C16: dumping never affects the outcome.  The flags act on a run only
\* through the dump calls, so two runs of the same test case with the same
\* transform behaviour that differ in verbose and quiet take the same steps
\* and return the same status iff, at every step, the dump calls of that
\* step can do under any values of the flags what they can do under the
\* run's own: return.
C16_DumpsDoNotDecide ==
    \A vb2 \in BOOLEAN : \A qt2 \in BOOLEAN :
        DumpOutcomes(tpc, vb2, qt2) = DumpOutcomes(tpc, verbose, quiet)

\* the test case (1..4) of main the step log belongs to; 0 before the first
CurCase == IF tpc = "idle" THEN Len(results) ELSE Len(results) + 1

\* C17 as stated: in the run of main (verbose = quiet = false at the start)
\* the forced dump happens exactly once in the whole run, for channel 0 of
\* the first test case, and for no channel of the second, third or fourth.
C17_DumpOnlyInFirstCase ==
    caller = "main" =>
        /\ Len(dumps) <= 1
        /\ \A k \in 1 .. Len(dumps) : dumps[k].case = 1 /\ dumps[k].chan = 0
        /\ (CurCase = 1 /\ Ran("VerifyPerChannel")) => Len(dumps) = 1

\* C17, amended: in the run of main the forced dump happens exactly once in
\* every test case that reaches its per-channel checks, for channel 0 of
\* that case and for no other channel; so the first case that gets there
\* is dumped, and so is each later one: four dumps when all four cases pass.
C17_DumpOncePerCase ==
    caller = "main" =>
        /\ \A k \in 1 .. Len(dumps) :
              /\ dumps[k].chan = 0
              /\ dumps[k].case \in 1 .. CurCase
        /\ \A k \in 1 .. Len(dumps) - 1 : dumps[k].case < dumps[k + 1].case
        /\ CurCase >= 1 =>
              (Ran("VerifyPerChannel")
                  <=> \E k \in 1 .. Len(dumps) : dumps[k].case = CurCase)
        /\ \A c \in 1 .. Len(results) :
              results[c] = 0 => \E k \in 1 .. Len(dumps) : dumps[k].case = c
        /\ (mpc = "done" /\ exitval = 0 /\ Len(results) = 4
              /\ \A c \in 1 .. 4 : results[c] = 0) =>
              dumps = [c \in 1 .. 4 |-> [case |-> c, chan |-> 0]]

\* C17 witness: main has run all four cases, each passed, and each made its
\* forced dump for channel 0
C17_Witness ==
    /\ caller = "main"
    /\ mpc = "done"
    /\ exitval = 0
    /\ results = <<0, 0, 0, 0>>
    /\ Len(dumps) = 4
    /\ dumps[2] = [case |-> 2, chan |-> 0]
    /\ dumps[4] = [case |-> 4, chan |-> 0]

\* C18: test() leaves verbose and quiet as it found them.  No step of it
\* changes quiet, and none changes verbose unless the process dies in it, so
\* on every exit path (validation, allocation, transform or verification
\* failure, success) the flags at the return are those at the call; under
\* main they are false at every return.  Every check_buf call of the case
\* was made with verbose as it was on entry: true only if it was true then.
C18_FlagsRestored ==
    [][/\ quiet' = quiet
       /\ tpc' # "crashed" => verbose' = verbose
       /\ \A k \in 1 .. Len(checks') : checks'[k].vb = verbose
       /\ (caller' = "main" /\ tpc' \in {"returned", "idle"}) =>
             (~verbose' /\ ~quiet')]_vars

\* C18 witness: test() was called with both flags false, forced its dump at
\* channel 0, checked both channels with verbose false and has returned 0
\* with both flags false
C18_Witness ==
    /\ caller = "direct"
    /\ tpc = "returned"
    /\ ret = 0
    /\ num_chan = 2
    /\ dumps = << [case |-> 1, chan |-> 0] >>
    /\ ~verbose
    /\ ~quiet
    /\ Len(checks) = 3
    /\ \A k \in 1 .. Len(checks) : ~checks[k].vb

====
